---- MODULE Spec2Model ----
(***************************************************************************)
(* Model of src/tui.rs: the interactive event loop (run), its key handler  *)
(* (handle_key), the device directory (App::key_up, App::key_down,         *)
(* App::refresh_devices) and the scan tasks that handle_key spawns, which  *)
(* race run_scan against a one-slot cancellation channel and talk to the   *)
(* loop through the bounded message bus events_tx / events_rx.             *)
(*                                                                         *)
(* The model covers one execution of run(): once run() has returned (or    *)
(* panicked) nothing moves any more.                                       *)
(***************************************************************************)
EXTENDS Integers, Sequences, FiniteSets

\* ------------------------------------------------------------- bounds
\* Number of scan tasks handle_key may spawn in one execution.
MaxTasks == 2
\* Number of findings one scan may yield.
MaxFindings == 2
\* Number of devices the discovery collaborator may list.
MaxDevices == 2

\* ---------------------------------------------------- program constants
\* mpsc::channel(5): capacity of the message bus.
BusCapacity == 5
\* mpsc::channel(1): capacity of a session's cancellation channel.
CancelCapacity == 1

VARIABLES
    devices,      \* App.devices: sequence of device serials
    cursor,       \* App.cursor: usize, 0-based index
    report,       \* App.report: Option<Vec<Suspicion>>
    cancel_scan,  \* App.cancel_scan: Option<Sender<()>>, named by the task that holds the receiver
    bus,          \* messages sent on events_tx and not yet received on events_rx
    tasks,        \* the spawned scan tasks
    spawned,      \* number of tasks spawned so far
    exit          \* how run() ended, "none" while the loop runs

vars == <<devices, cursor, report, cancel_scan, bus, tasks, spawned, exit>>

\* ------------------------------------------------------------- Option
None == {}
Some(x) == {x}
IsSome(o) == o # {}
IsNone(o) == o = {}
Unwrap(o) == CHOOSE x \in o : TRUE

\* ------------------------------------------------------------ messages
\* Message::ScanEnded has no payload; src records the sending task and is
\* never read by the loop.
ScanEnded(t) == [kind |-> "ScanEnded", src |-> t, n |-> 0, shown |-> FALSE]
\* Message::Suspicion(sus): the n-th finding of task src; shown records
\* whether a Report existed when it was sent and is never read by the loop.
Suspicion(t, k, shown) == [kind |-> "Suspicion", src |-> t, n |-> k, shown |-> shown]

TaskIds == 1..MaxTasks
Serials == 1..MaxDevices

\* What Host::devices() may return: the serials in listing order.
DeviceLists ==
    { s \in UNION { [1..n -> Serials] : n \in 0..MaxDevices } :
        \A i, j \in DOMAIN s : i < j => s[i] < s[j] }

\* ------------------------------------------------------------- tasks
\* pc:        "unspawned", "race" (inside tokio::select!), "send_ended"
\*            (a handler of the select is sending ScanEnded), "done"
\* stage:     where run_scan is: "connect", "rules", "scan"; "dropped" once
\*            the select is over
\* serial:    the device the task was given (0 once the connection replaced it)
\* emitted:   findings run_scan has sent so far
\* chan:      the cancellation channel seen from cancel_rx: "open" (sender
\*            alive, nothing buffered), "signalled" (a () is buffered),
\*            "closed" (sender dropped, nothing buffered), "dropped"
\*            (cancel_rx itself is gone: the task has ended)
\* outcome:   which way the select went
\* cancelled: a cancel input was processed for this task's session
\* seen:      how many ScanEnded messages of this task the loop received
NoTask ==
    [pc |-> "unspawned", stage |-> "dropped", serial |-> 0, emitted |-> 0,
     chan |-> "dropped", outcome |-> "none", cancelled |-> FALSE, seen |-> 0]

NewTask(serial) ==
    [pc |-> "race", stage |-> "connect", serial |-> serial, emitted |-> 0,
     chan |-> "open", outcome |-> "none", cancelled |-> FALSE, seen |-> 0]

\* Dropping the Sender held in an Option: the receiver sees the channel
\* closed unless a () is already buffered.
DropSender(ts, o) ==
    [t \in TaskIds |->
        IF t \in o /\ ts[t].chan = "open" THEN [ts[t] EXCEPT !.chan = "closed"]
        ELSE ts[t]]

\* Mutation of SendCancel: the () is not buffered.
SendCancel_lost(ts, t) ==
    [ts EXCEPT ![t] = [@ EXCEPT !.cancelled = TRUE]]

\* tx.send(()).await.ok() on the sender of task t: buffers a () unless the
\* receiver is gone.
SendCancel(ts, t) ==
    [ts EXCEPT ![t] = [@ EXCEPT !.chan = IF @ = "dropped" THEN @ ELSE "signalled",
                                 !.cancelled = TRUE]]

\* --------------------------------------------------------- directory
SaturatingSub(a, b) == IF a >= b THEN a - b ELSE 0

key_up(c) == SaturatingSub(c, 1)

key_down(ds, c) ==
    LET max == SaturatingSub(Len(ds), 1)
    IN  IF c < max THEN c + 1 ELSE c

\* Mutation of refresh_cursor: the cursor is not clamped.
refresh_cursor_kept(ds, c) == c

\* The cursor after refresh_devices stored the list ds.
refresh_cursor(ds, c) ==
    IF c >= Len(ds)
    THEN (IF Len(ds) = 0 THEN 0 ELSE Len(ds) - 1)
    ELSE c

\* -------------------------------------------------------------- Init
\* The state run() starts in: App::new followed by a successful App::init.
Init ==
    /\ devices \in DeviceLists
    /\ cursor = 0
    /\ report = None
    /\ cancel_scan = None
    /\ bus = <<>>
    /\ tasks = [t \in TaskIds |-> NoTask]
    /\ spawned = 0
    /\ exit = "none"

Running == exit = "none"

\* ------------------------------------------------------ key handlers
\* Mutation of KeyCancel: the report is taken before the session is looked at.
KeyCancel_report_first ==
    /\ Running
    /\ IF IsSome(report)
       THEN /\ report' = None
            /\ UNCHANGED <<tasks, cancel_scan, exit>>
       ELSE IF IsSome(cancel_scan)
       THEN /\ tasks' = SendCancel(tasks, Unwrap(cancel_scan))
            /\ cancel_scan' = None
            /\ UNCHANGED <<report, exit>>
       ELSE /\ exit' = "shutdown"
            /\ UNCHANGED <<tasks, cancel_scan, report>>
    /\ UNCHANGED <<devices, cursor, bus, spawned>>

\* Mutation of KeyCancel: cancelling the session also discards the report.
KeyCancel_discards_report ==
    /\ Running
    /\ IF IsSome(cancel_scan)
       THEN /\ tasks' = SendCancel(tasks, Unwrap(cancel_scan))
            /\ cancel_scan' = None
            /\ report' = None
            /\ UNCHANGED exit
       ELSE IF IsSome(report)
       THEN /\ report' = None
            /\ UNCHANGED <<tasks, cancel_scan, exit>>
       ELSE /\ exit' = "shutdown"
            /\ UNCHANGED <<tasks, cancel_scan, report>>
    /\ UNCHANGED <<devices, cursor, bus, spawned>>

\* Mutation of KeyCancel: the sender is used where it is, not taken out of
\* app.cancel_scan.
KeyCancel_keeps_sender ==
    /\ Running
    /\ IF IsSome(cancel_scan)
       THEN /\ tasks' = SendCancel(tasks, Unwrap(cancel_scan))
            /\ UNCHANGED <<cancel_scan, report, exit>>
       ELSE IF IsSome(report)
       THEN /\ report' = None
            /\ UNCHANGED <<tasks, cancel_scan, exit>>
       ELSE /\ exit' = "shutdown"
            /\ UNCHANGED <<tasks, cancel_scan, report>>
    /\ UNCHANGED <<devices, cursor, bus, spawned>>

\* Esc, Ctrl+C, q.
KeyCancel ==
    /\ Running
    /\ IF IsSome(cancel_scan)
       THEN /\ tasks' = SendCancel(tasks, Unwrap(cancel_scan))
            /\ cancel_scan' = None
            /\ UNCHANGED <<report, exit>>
       ELSE IF IsSome(report)
       THEN /\ report' = None
            /\ UNCHANGED <<tasks, cancel_scan, exit>>
       ELSE /\ exit' = "shutdown"
            /\ UNCHANGED <<tasks, cancel_scan, report>>
    /\ UNCHANGED <<devices, cursor, bus, spawned>>

\* Shift+Q.
KeyShiftQ ==
    /\ Running
    /\ exit' = "shutdown"
    /\ UNCHANGED <<devices, cursor, report, cancel_scan, bus, tasks, spawned>>

\* Enter: app.devices[app.cursor] panics when the index is out of bounds;
\* otherwise a task is spawned, the report is reset and the sender stored
\* (the sender stored before is dropped).
KeyEnter ==
    /\ Running
    /\ IF cursor >= Len(devices)
       THEN /\ exit' = "panic"
            /\ UNCHANGED <<report, cancel_scan, tasks, spawned>>
       ELSE /\ spawned < MaxTasks
            /\ LET t == spawned + 1
               IN  /\ tasks' = [DropSender(tasks, cancel_scan)
                                  EXCEPT ![t] = NewTask(devices[cursor + 1])]
                   /\ cancel_scan' = Some(t)
                   /\ spawned' = t
            /\ report' = Some(<<>>)
            /\ UNCHANGED exit
    /\ UNCHANGED <<devices, cursor, bus>>

KeyUp ==
    /\ Running
    /\ cursor' = key_up(cursor)
    /\ UNCHANGED <<devices, report, cancel_scan, bus, tasks, spawned, exit>>

KeyDown ==
    /\ Running
    /\ cursor' = key_down(devices, cursor)
    /\ UNCHANGED <<devices, report, cancel_scan, bus, tasks, spawned, exit>>

\* Ctrl+R with Host::devices() returning a list.
KeyRefreshOk ==
    /\ Running
    /\ \E ds \in DeviceLists :
        /\ devices' = ds
        /\ cursor' = refresh_cursor(ds, cursor)
    /\ UNCHANGED <<report, cancel_scan, bus, tasks, spawned, exit>>

\* Mutation of KeyRefreshErr: the list is emptied before the error is returned.
KeyRefreshErr_clears ==
    /\ Running
    /\ exit' = "discovery"
    /\ devices' = <<>>
    /\ cursor' = 0
    /\ UNCHANGED <<report, cancel_scan, bus, tasks, spawned>>

\* Ctrl+R with Host::devices() failing: `?` in refresh_devices, in
\* handle_key and in run hands the error to run's caller.
KeyRefreshErr ==
    /\ Running
    /\ exit' = "discovery"
    /\ UNCHANGED <<devices, cursor, report, cancel_scan, bus, tasks, spawned>>

\* Ctrl+L: Action::Clear, and terminal.clear() succeeds.
KeyClear ==
    /\ Running
    /\ UNCHANGED vars

\* Any other event.
KeyOther ==
    /\ Running
    /\ UNCHANGED vars

\* The event stream ends: break.
InputEnd ==
    /\ Running
    /\ exit' = "eof"
    /\ UNCHANGED <<devices, cursor, report, cancel_scan, bus, tasks, spawned>>

\* terminal.draw()?, terminal.clear()? or reading the next event fails.
IoErr ==
    /\ Running
    /\ exit' = "io"
    /\ UNCHANGED <<devices, cursor, report, cancel_scan, bus, tasks, spawned>>

\* ------------------------------------------------------ bus handlers
\* Mutation of RecvScanEnded: the end of the scan also discards the report.
RecvScanEnded_discards ==
    /\ Running
    /\ bus # <<>>
    /\ Head(bus).kind = "ScanEnded"
    /\ bus' = Tail(bus)
    /\ tasks' = [DropSender(tasks, cancel_scan)
                   EXCEPT ![Head(bus).src] = [@ EXCEPT !.seen = @ + 1]]
    /\ cancel_scan' = None
    /\ report' = None
    /\ UNCHANGED <<devices, cursor, spawned, exit>>

\* events_rx.recv() yields Message::ScanEnded.
RecvScanEnded ==
    /\ Running
    /\ bus # <<>>
    /\ Head(bus).kind = "ScanEnded"
    /\ bus' = Tail(bus)
    /\ tasks' = [DropSender(tasks, cancel_scan)
                   EXCEPT ![Head(bus).src] = [@ EXCEPT !.seen = @ + 1]]
    /\ cancel_scan' = None
    /\ UNCHANGED <<devices, cursor, report, spawned, exit>>

\* Mutation of push_report: the finding is put in front.
push_report_front(r, sus) ==
    IF IsSome(r) THEN Some(<<sus>> \o Unwrap(r)) ELSE r

\* The report after a Suspicion was received.
push_report(r, sus) ==
    IF IsSome(r) THEN Some(Append(Unwrap(r), sus)) ELSE r

\* events_rx.recv() yields Message::Suspicion.
RecvSuspicion ==
    /\ Running
    /\ bus # <<>>
    /\ Head(bus).kind = "Suspicion"
    /\ bus' = Tail(bus)
    /\ report' = push_report(report, Head(bus))
    /\ UNCHANGED <<devices, cursor, cancel_scan, tasks, spawned, exit>>

\* ------------------------------------------------------- scan tasks
Racing(t) == Running /\ tasks[t].pc = "race"

\* Mutation of Resolve: a scan that fails ends the task at once, without
\* the handler's send.
Resolve_silent_error(t, how) ==
    [tasks EXCEPT ![t] = [@ EXCEPT !.pc = IF how \in {"connect_err", "rules_err", "scan_err"}
                                          THEN "done" ELSE "send_ended",
                                   !.chan = IF how \in {"connect_err", "rules_err", "scan_err"}
                                            THEN "dropped" ELSE @,
                                   !.outcome = how,
                                   !.stage = "dropped", !.serial = 0]]

\* The select is over: its futures are dropped and the handler starts.
Resolve(t, how) ==
    [tasks EXCEPT ![t] = [@ EXCEPT !.pc = "send_ended", !.outcome = how,
                                   !.stage = "dropped", !.serial = 0]]

\* run_scan: device_or_default succeeds or fails.
Connect(t) ==
    /\ Racing(t)
    /\ tasks[t].stage = "connect"
    /\ \/ tasks' = [tasks EXCEPT ![t] = [@ EXCEPT !.stage = "rules", !.serial = 0]]
       \/ tasks' = Resolve(t, "connect_err")
    /\ UNCHANGED <<devices, cursor, report, cancel_scan, bus, spawned, exit>>

\* run_scan: ioc_file_path and load_map_from_file succeed or fail.
LoadRules(t) ==
    /\ Racing(t)
    /\ tasks[t].stage = "rules"
    /\ \/ tasks' = [tasks EXCEPT ![t] = [@ EXCEPT !.stage = "scan"]]
       \/ tasks' = Resolve(t, "rules_err")
    /\ UNCHANGED <<devices, cursor, report, cancel_scan, bus, spawned, exit>>

\* scan::run sends one finding through ScanNotifier::Channel; the send
\* waits while the bus is full.
ScanEmit(t) ==
    /\ Racing(t)
    /\ tasks[t].stage = "scan"
    /\ tasks[t].emitted < MaxFindings
    /\ Len(bus) < BusCapacity
    /\ bus' = Append(bus, Suspicion(t, tasks[t].emitted + 1, IsSome(report)))
    /\ tasks' = [tasks EXCEPT ![t] = [@ EXCEPT !.emitted = @ + 1]]
    /\ UNCHANGED <<devices, cursor, report, cancel_scan, spawned, exit>>

\* scan::run returns Ok or Err.
ScanReturn(t) ==
    /\ Racing(t)
    /\ tasks[t].stage = "scan"
    /\ \E how \in {"ok", "scan_err"} : tasks' = Resolve(t, how)
    /\ UNCHANGED <<devices, cursor, report, cancel_scan, bus, spawned, exit>>

\* cancel_rx.recv() resolves: with Some(()) when a () is buffered, with
\* None when the sender was dropped; the arm's pattern `_` takes both.
CancelArm(t) ==
    /\ Racing(t)
    /\ tasks[t].chan \in {"signalled", "closed"}
    /\ tasks' = Resolve(t, "cancel")
    /\ UNCHANGED <<devices, cursor, report, cancel_scan, bus, spawned, exit>>

\* Mutation of SendEnded: the send does not wait for room on the bus.
SendEnded_unbounded(t) ==
    /\ Running
    /\ tasks[t].pc = "send_ended"
    /\ bus' = Append(bus, ScanEnded(t))
    /\ tasks' = [tasks EXCEPT ![t] = [@ EXCEPT !.pc = "done", !.chan = "dropped"]]
    /\ UNCHANGED <<devices, cursor, report, cancel_scan, spawned, exit>>

\* events_tx.send(Message::ScanEnded).await in either handler; the send
\* waits while the bus is full; the task ends and drops cancel_rx.
SendEnded(t) ==
    /\ Running
    /\ tasks[t].pc = "send_ended"
    /\ Len(bus) < BusCapacity
    /\ bus' = Append(bus, ScanEnded(t))
    /\ tasks' = [tasks EXCEPT ![t] = [@ EXCEPT !.pc = "done", !.chan = "dropped"]]
    /\ UNCHANGED <<devices, cursor, report, cancel_scan, spawned, exit>>

TaskStep(t) ==
    \/ Connect(t)
    \/ LoadRules(t)
    \/ ScanEmit(t)
    \/ ScanReturn(t)
    \/ CancelArm(t)
    \/ SendEnded(t)

\* ------------------------------------------------------------- Next
\* The steps of an execution whose end only the operator's cancel/quit key
\* (or a panic of the Enter handler) can bring about.
NextLive ==
    \/ KeyCancel
    \/ KeyEnter
    \/ KeyUp
    \/ KeyDown
    \/ KeyRefreshOk
    \/ KeyClear
    \/ KeyOther
    \/ RecvScanEnded
    \/ RecvSuspicion
    \/ \E t \in TaskIds : TaskStep(t)

Next ==
    \/ NextLive
    \/ KeyShiftQ
    \/ KeyRefreshErr
    \/ InputEnd
    \/ IoErr

Spec == Init /\ [][Next]_vars

\* The executions in which the loop keeps running: no Shift+Q, no end of
\* input, no I/O or discovery error.
\* Scheduling: tokio::select! in run polls its two branches in random
\* order, so a message waiting on the bus is received; a spawned task is
\* polled once its cancellation channel is ready, and a send waiting for
\* room on the bus gets it once the loop has received a message.  Nothing
\* makes the operator press a key or a scan return.
Fairness ==
    /\ WF_vars(RecvScanEnded)
    /\ WF_vars(RecvSuspicion)
    /\ \A t \in TaskIds : WF_vars(CancelArm(t)) /\ WF_vars(SendEnded(t))

FairSpec == Init /\ [][NextLive]_vars /\ Fairness

\* ================================================================ claims
\* A task is active from its spawn until it has put its ScanEnded on the bus.
ActiveTasks == { t \in TaskIds : tasks[t].pc \in {"race", "send_ended"} }

\* The findings of task t in a sequence of messages, as their numbers.
RECURSIVE NumbersOf(_, _)
NumbersOf(t, ms) ==
    IF ms = <<>> THEN <<>>
    ELSE IF Head(ms).kind = "Suspicion" /\ Head(ms).src = t
         THEN <<Head(ms).n>> \o NumbersOf(t, Tail(ms))
         ELSE NumbersOf(t, Tail(ms))

\* The ScanEnded messages of task t the bus holds.
EndedOnBus(t) ==
    Cardinality({ i \in DOMAIN bus : bus[i].kind = "ScanEnded" /\ bus[i].src = t })

\* The task whose start created the Report that is present: every start
\* replaces the Report, so it is the task spawned last.
Owner == spawned

\* Task t cannot go on until the loop takes a message off the bus.
BlockedOnBus(t) ==
    /\ Len(bus) = BusCapacity
    /\ \/ tasks[t].pc = "send_ended"
       \/ tasks[t].pc = "race" /\ tasks[t].stage = "scan" /\ tasks[t].emitted < MaxFindings

\* C1: in every reachable state there is at most one cancellation sender
\* and at most one active scan task (spawned, ScanEnded not yet emitted).
C1_AtMostOneSession ==
    /\ Cardinality(cancel_scan) <= 1
    /\ Cardinality(ActiveTasks) <= 1

\* C2: once a cancel input has been processed for a session, and unless the
\* loop ends, the loop eventually receives the ScanEnded of that session's
\* task; it receives it once only; the step that receives it leaves no
\* session handle, and the cancelled session's handle never comes back.
C2_CancelTerminatesSession ==
    /\ \A t \in TaskIds :
          tasks[t].cancelled ~> (tasks[t].seen = 1 \/ exit # "none")
    /\ [](\A t \in TaskIds :
            /\ tasks[t].seen <= 1
            /\ tasks[t].cancelled => cancel_scan # Some(t))
    /\ [][\A t \in TaskIds :
            tasks'[t].seen # tasks[t].seen => IsNone(cancel_scan')]_vars

\* C2 witness: a session was cancelled from the keyboard, its task took the
\* cancellation arm and the loop has received its ScanEnded.
C2_Witness ==
    /\ tasks[1].cancelled
    /\ tasks[1].outcome = "cancel"
    /\ tasks[1].seen = 1
    /\ IsNone(cancel_scan)
    /\ exit = "none"

\* C3 (as stated): a finding that was sent while a Report existed is
\* appended to the Report when the loop receives it.
C3_EmittedWhileShownIsAppended ==
    [][(/\ RecvSuspicion
        /\ Head(bus).shown)
       => (/\ IsSome(report')
           /\ Len(Unwrap(report')) >= 1
           /\ Unwrap(report')[Len(Unwrap(report'))] = Head(bus))]_vars

\* C3 (amended): while the Report of a scan is present, the findings its
\* task has emitted are, exactly once each and in emission order, first in
\* the Report and then on the bus; this also holds while the task waits on
\* the full bus.
C3_NoFindingLostWhileReportKept ==
    IsSome(report) =>
        NumbersOf(Owner, Unwrap(report)) \o NumbersOf(Owner, bus)
            = [i \in 1..tasks[Owner].emitted |-> i]

\* C3 witness: the Report is present and its task, having emitted all its
\* findings, waits on the full bus to send ScanEnded.
C3_Witness ==
    /\ IsSome(report)
    /\ BlockedOnBus(Owner)
    /\ tasks[Owner].emitted = MaxFindings

\* C4: every spawned task puts exactly one ScanEnded on the bus, whichever
\* arm of the select won: never two, and it has ended exactly when it has
\* put one.
C4_ExactlyOneScanEnded ==
    \A t \in TaskIds :
        LET sent == EndedOnBus(t) + tasks[t].seen
        IN  /\ sent <= 1
            /\ (tasks[t].pc = "done") <=> (sent = 1)
            /\ tasks[t].pc \in {"send_ended", "done"} <=> tasks[t].outcome # "none"

\* C4 witness: one task ended by cancellation and another by a failed rule
\* load, and the loop received the ScanEnded of both.
C4_Witness ==
    /\ tasks[1].pc = "done" /\ tasks[1].outcome = "cancel" /\ tasks[1].seen = 1
    /\ tasks[2].pc = "done" /\ tasks[2].outcome = "rules_err" /\ tasks[2].seen = 1

\* C5: the cursor is a valid index into the device sequence, or 0 when the
\* sequence is empty; Up at index 0 and Down at the last index leave it as
\* it is.
C5_CursorInvariant ==
    /\ IF Len(devices) = 0 THEN cursor = 0 ELSE cursor \in 0..(Len(devices) - 1)
    /\ cursor = 0 => key_up(cursor) = cursor
    /\ cursor + 1 >= Len(devices) => key_down(devices, cursor) = cursor

\* C5 witness: the cursor was moved down to the last of several devices.
C5_Witness ==
    /\ Len(devices) = MaxDevices
    /\ cursor = MaxDevices - 1
    /\ cursor > 0

\* C6: with a Report present, Enter spawns no task and leaves the Report,
\* the session handle, the device sequence and the cursor unchanged.
C6_EnterOnlyInDeviceList ==
    [][(KeyEnter /\ IsSome(report))
       => UNCHANGED <<report, cancel_scan, devices, cursor, tasks, spawned>>]_vars

\* C7: once the scan started last has failed to connect to the device or
\* to load the rules, there is no Report and no session handle.
C7_FailedStartLeavesDeviceList ==
    (spawned >= 1 /\ tasks[spawned].outcome \in {"connect_err", "rules_err"})
        => (IsNone(report) /\ IsNone(cancel_scan))

\* C8: only the start of a scan makes the Report present, and it makes it
\* the empty sequence; only a cancel/quit input processed with no session
\* makes it absent; no other step changes whether it is present.
C8_ReportPresence ==
    [][/\ (spawned' # spawned) => (report' = Some(<<>>))
       /\ (IsNone(report) /\ IsSome(report')) => (KeyEnter /\ spawned' # spawned)
       /\ (IsSome(report) /\ IsNone(report')) => (KeyCancel /\ IsNone(cancel_scan))]_vars

\* C8 witness: the loop has received the ScanEnded of the only scan started
\* and two findings, and the Report is still present with no session.
C8_Witness ==
    /\ spawned = 1
    /\ tasks[1].seen = 1
    /\ IsNone(cancel_scan)
    /\ IsSome(report)
    /\ Len(Unwrap(report)) = 2

\* C9: the cancel/quit input does one of three things: with a session it
\* only requests cancellation; with a Report and no session it only
\* discards the Report; with neither it ends the loop.
C9_CancelQuitByState ==
    [][KeyCancel =>
        /\ IsSome(cancel_scan) =>
              /\ cancel_scan' = None
              /\ tasks' = SendCancel(tasks, Unwrap(cancel_scan))
              /\ UNCHANGED <<report, exit, devices, cursor, bus, spawned>>
        /\ (IsNone(cancel_scan) /\ IsSome(report)) =>
              /\ report' = None
              /\ UNCHANGED <<cancel_scan, tasks, exit, devices, cursor, bus, spawned>>
        /\ (IsNone(cancel_scan) /\ IsNone(report)) =>
              /\ exit' = "shutdown"
              /\ UNCHANGED <<cancel_scan, tasks, report, devices, cursor, bus, spawned>>]_vars

\* C9 witness: a scan was started and ended, its Report was discarded, and
\* the loop has shut down.
C9_Witness ==
    /\ exit = "shutdown"
    /\ spawned >= 1
    /\ IsNone(report)
    /\ IsNone(cancel_scan)
    /\ ActiveTasks = {}

Producers == { bus[i].src : i \in DOMAIN bus }

\* C11: the bus never holds more than 5 messages, whichever tasks sent
\* them; while it is full nothing is added to it (a producer with a message
\* to send stays where it is); and a task that has its ScanEnded to send
\* gets to send it once the loop has made room, unless the loop ends.
C11_BusBounded ==
    /\ [](Len(bus) <= BusCapacity)
    /\ [][Len(bus) = BusCapacity => (bus' = bus \/ bus' = Tail(bus))]_vars
    /\ \A t \in TaskIds :
          (tasks[t].pc = "send_ended" /\ Len(bus) = BusCapacity)
              ~> (tasks[t].pc = "done" \/ exit # "none")

\* C11 witness: the bus is full of the messages of two tasks, and one of
\* them has a further message to send.
C11_Witness ==
    /\ Len(bus) = BusCapacity
    /\ Producers = {1, 2}
    /\ \E t \in TaskIds : BlockedOnBus(t)
    /\ exit = "none"

\* A session was cancelled from the keyboard and the loop has not yet
\* received the ScanEnded of its task.
CancelPending == \E t \in TaskIds : tasks[t].cancelled /\ tasks[t].seen = 0

\* C12 (as stated): from the cancel of a session until its ScanEnded is
\* received the Report stays present.
C12_ReportKeptUntilScanEnded == CancelPending => IsSome(report)

\* C12 (amended): the cancel of a session keeps the Report and takes the
\* session handle at once; from then until the ScanEnded is received only
\* a further cancel/quit input makes the Report absent, and such an input,
\* finding no handle, does make it absent.
C12_ReportKeptUntilSecondCancel ==
    [][/\ (KeyCancel /\ IsSome(cancel_scan))
            => (report' = report /\ IsSome(report') /\ IsNone(cancel_scan'))
       /\ (CancelPending /\ IsSome(report) /\ IsNone(report'))
            => (KeyCancel /\ IsNone(cancel_scan))
       /\ (KeyCancel /\ IsNone(cancel_scan) /\ IsSome(report))
            => (IsNone(report') /\ exit' = "none")]_vars

\* C12 witness: the only session was cancelled, its task has not even
\* resolved its select, and a second cancel/quit input has already made
\* the Report absent.
C12_Witness ==
    /\ spawned = 1
    /\ tasks[1].cancelled
    /\ tasks[1].pc = "race"
    /\ tasks[1].seen = 0
    /\ IsNone(report)
    /\ IsNone(cancel_scan)
    /\ exit = "none"

\* C13: a ScanEnded clears only the handle of the session whose task sent
\* it: the handle of the session started last stays present until a cancel
\* input is processed for it or its own task has sent ScanEnded.
C13_ScanEndedClearsOwnSession ==
    (/\ spawned >= 1
     /\ tasks[spawned].pc # "done"
     /\ ~tasks[spawned].cancelled)
        => cancel_scan = Some(spawned)

\* C14: every finding in the Report was emitted by the task of the scan
\* whose start created the Report.
C14_ReportIsolation ==
    IsSome(report) =>
        \A i \in DOMAIN Unwrap(report) : Unwrap(report)[i].src = Owner

\* C15: Enter never reads outside the device sequence: the handler never
\* panics on app.devices[app.cursor].
C15_EnterNeverOutOfBounds == exit # "panic"

\* The number of () the cancellation channel of task t holds.
Buffered(t) == IF tasks[t].chan = "signalled" THEN 1 ELSE 0

\* C16: whenever the loop holds a sender it could send on, the channel has
\* room or its receiver is gone, so the send in the cancel handler never
\* waits; a sender that was used is not held any more.  Hence the loop is
\* never suspended on that send, whatever the task is waiting for.
C16_CancelSendNeverBlocks ==
    /\ \A t \in cancel_scan :
          tasks[t].chan = "dropped" \/ Buffered(t) < CancelCapacity
    /\ \A t \in TaskIds : tasks[t].cancelled => t \notin cancel_scan

\* C16 witness: the cancel was sent, and the loop is running on, while the
\* task is suspended on the full bus with the () still unread.
C16_Witness ==
    /\ exit = "none"
    /\ IsNone(cancel_scan)
    /\ \E t \in TaskIds :
          /\ tasks[t].cancelled
          /\ Buffered(t) = CancelCapacity
          /\ BlockedOnBus(t)

====
